---- MODULE Spec2Model ----
(***************************************************************************)
(* Model of asmartbear/audio (src/src/index.ts): the chunked sequential    *)
(* processing of an audio file (processAudioFileInChunks), the microphone  *)
(* recorder (recordMicrophone) and the file player (playAudioFile).        *)
(*                                                                         *)
(* One behaviour is one call of one exported function.  Every `await` of   *)
(* the code is a suspension point: an action is the synchronous code that  *)
(* runs from the settlement of one awaited promise up to the next await.   *)
(* External processes (ffprobe, ffmpeg, sox, play) and the caller's        *)
(* handler are the environment: they settle either way.                    *)
(* Seconds are integers (one unit of the model is any fixed time quantum). *)
(***************************************************************************)
EXTENDS Integers, Sequences, FiniteSets, TLC

\* ---- bounds of the model ------------------------------------------------
MaxD == 20          \* longest probed duration
MaxC == 10          \* largest chunkSecs argument
MaxO == 3           \* largest overlapSecs argument
MaxNeg == 1         \* most negative chunkSecs / overlapSecs argument
MaxStops == 3       \* fStop() calls of one recording
MaxData == 2        \* stderr 'data' events of one recording
MaxExitCode == 2    \* exit codes 0..MaxExitCode of a child process
MaxCalls == MaxD + 1   \* cap on loop iterations (only binds when the loop cannot end)

Paths == {"a.mp3", "b.m4a"}
Signals == {"SIGTERM", "SIGINT"}
NullCode == 0 - 1   \* `code === null`: the child was ended by a signal
ExitStatuses ==
    [code : 0..MaxExitCode, signal : {"null"}] \cup [code : {NullCode}, signal : Signals]
Metadata ==
    {[defined |-> FALSE, value |-> 0]} \cup [defined : {TRUE}, value : 0..MaxD]

VARIABLES
    op,                 \* the exported function that was called
    path,               \* its path / outPath argument
    chunkSecs, overlapSecs,
    pc,                 \* where processAudioFileInChunks is suspended
    duration,           \* info.duration
    startSecs, endSecs,
    extractions,        \* getAudioFileSegment calls made, in order
    calls,              \* fProcess calls made, in order
    activeExtractions,  \* getAudioFileSegment promises still pending
    activeHandlers,     \* fProcess promises still pending
    tempFiles,          \* segment files written to disk
    failure,            \* which step rejected, "none" if none
    mic,                \* the sox child process
    stopCalls, micLog, pathResolveCalls,
    killResult,         \* what the last mic.kill() returned
    completedPathPromise,
    player,             \* the play child process
    playPromise, exitStatus

vars == <<op, path, chunkSecs, overlapSecs, pc, duration, startSecs, endSecs,
          extractions, calls, activeExtractions, activeHandlers, tempFiles, failure,
          mic, stopCalls, micLog, pathResolveCalls, killResult, completedPathPromise,
          player, playPromise, exitStatus>>

chunkVars == <<chunkSecs, overlapSecs, pc, duration, startSecs, endSecs,
               extractions, calls, activeExtractions, activeHandlers, tempFiles, failure>>
micVars == <<mic, stopCalls, micLog, pathResolveCalls, killResult, completedPathPromise>>
playVars == <<player, playPromise>>

\* ---- pure helpers -------------------------------------------------------
Min(a, b) == IF a < b THEN a ELSE b

\* metadata.format.duration ?? 0
Coalesce(m, dflt) == IF m.defined THEN m.value ELSE dflt

\* `${path}.segment-${startSecs}-${endSecs}.mp3`
SegmentPath(p, s, e) == [base |-> p, segment |-> <<s, e>>]
OriginalPath(p) == [base |-> p, segment |-> <<>>]

\* A promise is settled by the first resolve/reject only.
Pending == [state |-> "pending", value |-> "none"]
Settle(p, how, v) == IF p.state = "pending" THEN [state |-> how, value |-> v] ELSE p

IsShortNoOverlap(d) == d <= chunkSecs
IsShort(d) == d <= chunkSecs + overlapSecs * 2

LoopCond(s, d) == s < d

EndOfUnclamped(s, d) == s + chunkSecs
EndOf(s, d) == Min(s + chunkSecs, d)

NextStart(s) == s + chunkSecs - overlapSecs

\* ---- Init ---------------------------------------------------------------
Init ==
    /\ op \in {"processAudioFileInChunks", "recordMicrophone", "playAudioFile"}
    /\ path \in Paths
    /\ chunkSecs \in (IF op = "processAudioFileInChunks" THEN (0 - MaxNeg)..MaxC ELSE {0})
    /\ overlapSecs \in (IF op = "processAudioFileInChunks" THEN (0 - MaxNeg)..MaxO ELSE {0})
    /\ pc = IF op = "processAudioFileInChunks" THEN "probe" ELSE "idle"
    /\ duration = 0 /\ startSecs = 0 /\ endSecs = 0
    /\ extractions = <<>> /\ calls = <<>>
    /\ activeExtractions = 0 /\ activeHandlers = 0
    /\ tempFiles = {} /\ failure = "none"
    /\ mic = IF op = "recordMicrophone" THEN "running" ELSE "idle"
    /\ stopCalls = 0 /\ micLog = 0 /\ pathResolveCalls = 0
    /\ killResult = "none"
    /\ completedPathPromise = Pending
    /\ player = IF op = "playAudioFile" THEN "spawned" ELSE "idle"
    /\ playPromise = Pending
    /\ exitStatus = [code |-> NullCode, signal |-> "null"]

\* ---- processAudioFileInChunks -------------------------------------------
\* The while test at start position s and, when it passes, the body up to
\* the await of getAudioFileSegment.
Iterate(s) ==
    /\ startSecs' = s
    /\ IF LoopCond(s, duration')
       THEN /\ endSecs' = EndOf(s, duration')
            /\ extractions' = Append(extractions, [startSecs |-> s, endSecs |-> EndOf(s, duration')])
            /\ activeExtractions' = activeExtractions + 1
            /\ pc' = "extract"
       ELSE /\ pc' = "resolved"
            /\ UNCHANGED <<endSecs, extractions, activeExtractions>>

\* getAudioFileInfo rejects: the await throws, the async function rejects.
ProbeReject ==
    /\ pc = "probe"
    /\ pc' = "rejected" /\ failure' = "probe"
    /\ UNCHANGED <<op, path, chunkSecs, overlapSecs, duration, startSecs, endSecs,
                   extractions, calls, activeExtractions, activeHandlers, tempFiles>>
    /\ UNCHANGED <<micVars, playVars, exitStatus>>

\* getAudioFileInfo resolves; the short-file test, then either the single
\* call on the original file or the first loop iteration.
ProbeResolve ==
    /\ pc = "probe"
    /\ \E m \in Metadata :
        /\ duration' = Coalesce(m, 0)
        /\ IF IsShort(duration')
           THEN /\ calls' = Append(calls, [path |-> OriginalPath(path), isTemporary |-> FALSE])
                /\ activeHandlers' = activeHandlers + 1
                /\ pc' = "single"
                /\ UNCHANGED <<startSecs, endSecs, extractions, activeExtractions>>
           ELSE /\ Iterate(0)
                /\ UNCHANGED <<calls, activeHandlers>>
    /\ UNCHANGED <<op, path, chunkSecs, overlapSecs, tempFiles, failure>>
    /\ UNCHANGED <<micVars, playVars, exitStatus>>

\* fProcess(path, false) resolves: return.
SingleResolve ==
    /\ pc = "single"
    /\ activeHandlers' = activeHandlers - 1
    /\ pc' = "resolved"
    /\ UNCHANGED <<op, path, chunkSecs, overlapSecs, duration, startSecs, endSecs,
                   extractions, calls, activeExtractions, tempFiles, failure>>
    /\ UNCHANGED <<micVars, playVars, exitStatus>>

\* fProcess(path, false) rejects.
SingleReject ==
    /\ pc = "single"
    /\ activeHandlers' = activeHandlers - 1
    /\ pc' = "rejected" /\ failure' = "handler"
    /\ UNCHANGED <<op, path, chunkSecs, overlapSecs, duration, startSecs, endSecs,
                   extractions, calls, activeExtractions, tempFiles>>
    /\ UNCHANGED <<micVars, playVars, exitStatus>>

\* getAudioFileSegment resolves with newPath; fProcess(chunkPath, true) is called.
ExtractResolve ==
    /\ pc = "extract"
    /\ activeExtractions' = activeExtractions - 1
    /\ tempFiles' = tempFiles \cup {SegmentPath(path, startSecs, endSecs)}
    /\ calls' = Append(calls, [path |-> SegmentPath(path, startSecs, endSecs), isTemporary |-> TRUE])
    /\ activeHandlers' = activeHandlers + 1
    /\ pc' = "handler"
    /\ UNCHANGED <<op, path, chunkSecs, overlapSecs, duration, startSecs, endSecs,
                   extractions, failure>>
    /\ UNCHANGED <<micVars, playVars, exitStatus>>

\* A rejection that is swallowed: the handler is called all the same.
ExtractRejectSwallowed ==
    /\ pc = "extract"
    /\ activeExtractions' = activeExtractions - 1
    /\ failure' = "extract"
    /\ calls' = Append(calls, [path |-> SegmentPath(path, startSecs, endSecs), isTemporary |-> TRUE])
    /\ activeHandlers' = activeHandlers + 1
    /\ pc' = "handler"
    /\ UNCHANGED <<op, path, chunkSecs, overlapSecs, duration, startSecs, endSecs,
                   extractions, tempFiles>>
    /\ UNCHANGED <<micVars, playVars, exitStatus>>

\* getAudioFileSegment rejects (ffmpeg 'error').
ExtractReject ==
    /\ pc = "extract"
    /\ activeExtractions' = activeExtractions - 1
    /\ pc' = "rejected" /\ failure' = "extract"
    /\ UNCHANGED <<op, path, chunkSecs, overlapSecs, duration, startSecs, endSecs,
                   extractions, calls, activeHandlers, tempFiles>>
    /\ UNCHANGED <<micVars, playVars, exitStatus>>

\* fProcess(chunkPath, true) resolves: advance startSecs, test the loop again.
HandlerResolve ==
    /\ pc = "handler"
    /\ LoopCond(NextStart(startSecs), duration) => Len(extractions) < MaxCalls
    /\ activeHandlers' = activeHandlers - 1
    /\ duration' = duration
    /\ Iterate(NextStart(startSecs))
    /\ UNCHANGED <<op, path, chunkSecs, overlapSecs, calls, tempFiles, failure>>
    /\ UNCHANGED <<micVars, playVars, exitStatus>>

\* fProcess(chunkPath, true) rejects.
HandlerReject ==
    /\ pc = "handler"
    /\ activeHandlers' = activeHandlers - 1
    /\ pc' = "rejected" /\ failure' = "handler"
    /\ UNCHANGED <<op, path, chunkSecs, overlapSecs, duration, startSecs, endSecs,
                   extractions, calls, activeExtractions, tempFiles>>
    /\ UNCHANGED <<micVars, playVars, exitStatus>>

\* ---- recordMicrophone ---------------------------------------------------
\* fStop(): mic.kill(); a signal is only delivered to a live child.
FStop ==
    /\ op = "recordMicrophone"
    /\ stopCalls < MaxStops
    /\ stopCalls' = stopCalls + 1
    /\ mic' = IF mic = "running" THEN "killed" ELSE mic
    /\ killResult' = IF mic \in {"running", "killed"} THEN "true" ELSE "false"
    /\ UNCHANGED <<op, path, chunkVars, micLog, pathResolveCalls, completedPathPromise,
                   playVars, exitStatus>>

\* mic.stderr 'data': console.log
MicStderrData ==
    /\ mic \in {"running", "killed"}
    /\ micLog < MaxData
    /\ micLog' = micLog + 1
    /\ UNCHANGED <<op, path, chunkVars, mic, stopCalls, pathResolveCalls, killResult,
                   completedPathPromise, playVars, exitStatus>>

\* sox cannot be spawned: the child emits 'error', which has no listener, so
\* the emit throws and the 'close' listener is never run.
MicSpawnError ==
    /\ mic = "running"
    /\ micLog = 0
    /\ mic' = "uncaught"
    /\ UNCHANGED <<op, path, chunkVars, stopCalls, micLog, pathResolveCalls, killResult,
                   completedPathPromise, playVars, exitStatus>>

\* The close listener rejecting on a non-zero exit.
MicCloseSettleStrict(st) ==
    Settle(completedPathPromise, IF st.code = 0 THEN "fulfilled" ELSE "rejected", path)
\* pathResolve(outPath)
MicCloseSettle(st) == Settle(completedPathPromise, "fulfilled", path)

\* mic 'close': console.log, pathResolve(outPath)
MicClose ==
    /\ mic \in {"running", "killed"}
    /\ \E st \in ExitStatuses :
        /\ exitStatus' = st
        /\ completedPathPromise' = MicCloseSettle(st)
    /\ mic' = "closed"
    /\ pathResolveCalls' = pathResolveCalls + 1
    /\ UNCHANGED <<op, path, chunkVars, stopCalls, micLog, killResult, playVars>>

\* ---- playAudioFile ------------------------------------------------------
\* player 'error' (the process could not be spawned): reject(err)
PlayerError ==
    /\ player = "spawned"
    /\ player' = "errored"
    /\ playPromise' = Settle(playPromise, "rejected", "error")
    /\ UNCHANGED <<op, path, chunkVars, micVars, exitStatus>>

\* player 'close': resolve(code)
PlayerClose ==
    /\ player \in {"spawned", "errored"}
    /\ \E st \in ExitStatuses :
        /\ player = "errored" => st.code = NullCode
        /\ exitStatus' = st
        /\ playPromise' = Settle(playPromise, "fulfilled", "closed")
    /\ player' = IF player = "errored" THEN "closedAfterError" ELSE "closed"
    /\ UNCHANGED <<op, path, chunkVars, micVars>>

Next ==
    \/ ProbeReject
    \/ ProbeResolve
    \/ SingleResolve
    \/ SingleReject
    \/ ExtractResolve
    \/ ExtractReject
    \/ HandlerResolve
    \/ HandlerReject
    \/ FStop
    \/ MicStderrData
    \/ MicSpawnError
    \/ MicClose
    \/ PlayerError
    \/ PlayerClose

Spec == Init /\ [][Next]_vars

\* ---- properties ---------------------------------------------------------
CeilDiv(a, b) == (a + b - 1) \div b

ValidOverlap == 0 <= overlapSecs /\ overlapSecs < chunkSecs
Probed == op = "processAudioFileInChunks" /\ pc # "probe" /\ failure # "probe"
ChunkingBranch == Probed /\ duration > chunkSecs + 2 * overlapSecs
ShortBranch == Probed /\ duration <= chunkSecs + 2 * overlapSecs
OriginalCall == [path |-> [base |-> path, segment |-> <<>>], isTemporary |-> FALSE]

\* C1: with 0 <= O < C, a run in which every step succeeds calls the handler
\* ceil((D - O) / (C - O)) times when D > C + 2*O and once, on the original
\* file, otherwise; D=20, C=10, O=1 (600/300/30 in units of 30s) gives the
\* chunks [0,10], [9,19], [18,20].
C1_ChunkCount ==
    (pc = "resolved" /\ ValidOverlap) =>
        /\ IF duration > chunkSecs + 2 * overlapSecs
           THEN Len(calls) = CeilDiv(duration - overlapSecs, chunkSecs - overlapSecs)
           ELSE calls = <<OriginalCall>>
        /\ (duration = 20 /\ chunkSecs = 10 /\ overlapSecs = 1) =>
              extractions = << [startSecs |-> 0, endSecs |-> 10],
                               [startSecs |-> 9, endSecs |-> 19],
                               [startSecs |-> 18, endSecs |-> 20] >>

\* C2: in the chunking branch with 0 <= O < C, consecutive chunks satisfy
\* chunk[i].endSecs - O = chunk[i+1].startSecs, and every chunk but the last
\* is exactly chunkSecs long.
C2_ExactOverlap ==
    (ChunkingBranch /\ ValidOverlap) =>
        \A i \in 1..(Len(extractions) - 1) :
            /\ extractions[i].endSecs - overlapSecs = extractions[i + 1].startSecs
            /\ extractions[i].endSecs - extractions[i].startSecs = chunkSecs

\* C3: the loop never advances startSecs by a non-positive amount (a call
\* with overlapSecs >= chunkSecs is rejected before the loop), so it ends.
C3_ForwardProgress ==
    [][(pc = "handler" /\ pc' \in {"extract", "resolved"}) => startSecs' > startSecs]_vars

\* C4: at most one handler call is active, no extraction is started while a
\* handler call is active, and handlers are called in increasing startSecs order.
C4_Serialised ==
    /\ activeHandlers <= 1
    /\ activeHandlers + activeExtractions <= 1
    /\ \A i \in 1..(Len(extractions) - 1) :
          extractions[i].startSecs < extractions[i + 1].startSecs

\* C5: once a step fails nothing further is started: a failed probe leaves no
\* extraction and no handler call, the failing step starts no new extraction
\* or handler call, the call is rejected with nothing pending, and segment
\* files already written are never removed.
C5_FailStop ==
    /\ [](failure # "none" =>
            pc = "rejected" /\ activeHandlers = 0 /\ activeExtractions = 0)
    /\ [](failure = "probe" => extractions = <<>> /\ calls = <<>> /\ tempFiles = {})
    /\ [][failure' # "none" =>
            extractions' = extractions /\ calls' = calls /\ tempFiles' = tempFiles]_vars
    /\ [][tempFiles \subseteq tempFiles']_vars

C5_Witness ==
    pc = "rejected" /\ failure = "handler" /\ Len(calls) >= 2 /\ Cardinality(tempFiles) >= 2

\* C6: when D <= chunkSecs + 2*overlapSecs the handler is called exactly once,
\* on the original path with isTemporary = false, and getAudioFileSegment is
\* never called (no temporary file).
C6_ShortFile ==
    ShortBranch =>
        /\ calls = <<OriginalCall>>
        /\ extractions = <<>> /\ activeExtractions = 0 /\ tempFiles = {}

C6_Witness ==
    ShortBranch /\ pc = "resolved" /\ duration = 3 /\ chunkSecs = 10 /\ overlapSecs = 1

\* C7: the call never resolves after zero handler invocations.
C7_AtLeastOnce ==
    pc = "resolved" => Len(calls) >= 1

\* C8: completedPathPromise is pending until the capture process closes, is
\* then fulfilled with outPath by a single pathResolve whatever the exit code
\* or signal, is never rejected, and is not changed by anything after close.
C8_RecorderCompletion ==
    /\ [](op = "recordMicrophone" =>
            /\ (mic # "closed" => completedPathPromise = [state |-> "pending", value |-> "none"])
            /\ (mic = "closed" =>
                    completedPathPromise = [state |-> "fulfilled", value |-> path])
            /\ pathResolveCalls = (IF mic = "closed" THEN 1 ELSE 0)
            /\ completedPathPromise.state # "rejected")
    /\ [][mic = "closed" =>
            completedPathPromise' = completedPathPromise /\ mic' = mic]_vars

C8_Witness ==
    /\ mic = "closed" /\ killResult = "false" /\ stopCalls >= 2
    /\ exitStatus.code = 1
    /\ completedPathPromise = [state |-> "fulfilled", value |-> path]

\* C9: the promise of playAudioFile is fulfilled when the player exits
\* normally and rejected when it cannot be spawned or exits abnormally.
C9_PlayerOutcome ==
    /\ (player = "closed" /\ exitStatus.code = 0) => playPromise.state = "fulfilled"
    /\ (player = "closed" /\ exitStatus.code # 0) => playPromise.state = "rejected"
    /\ player \in {"errored", "closedAfterError"} => playPromise.state = "rejected"

\* C10: in the chunking branch with 0 <= O < C the chunks leave no gap: the
\* first starts at 0, each has 0 <= startSecs < endSecs <= D and length at
\* most chunkSecs, each next one starts at or before the previous end, and
\* the last one ends at D.
C10_NoGap ==
    (ChunkingBranch /\ ValidOverlap) =>
        /\ Len(extractions) >= 1
        /\ extractions[1].startSecs = 0
        /\ \A i \in 1..Len(extractions) :
            /\ 0 <= extractions[i].startSecs
            /\ extractions[i].startSecs < extractions[i].endSecs
            /\ extractions[i].endSecs <= duration
            /\ extractions[i].endSecs - extractions[i].startSecs <= chunkSecs
        /\ \A i \in 1..(Len(extractions) - 1) :
            extractions[i + 1].startSecs <= extractions[i].endSecs
        /\ pc = "resolved" => extractions[Len(extractions)].endSecs = duration

C10_Witness ==
    /\ ChunkingBranch /\ ValidOverlap /\ pc = "resolved"
    /\ overlapSecs >= 1 /\ Len(extractions) >= 3
    /\ extractions[Len(extractions)].endSecs - extractions[Len(extractions)].startSecs < chunkSecs
====
